---- MODULE Spec2Model ----
(***************************************************************************)
(* The genart front end in three parts.                                    *)
(*                                                                         *)
(* The job polling state machine of the VectorGraphicsForm component:      *)
(* onSubmit creates a remote prediction, pollPrediction queries its status *)
(* until it is done, and onSubmit reports the outcome to the user          *)
(* (Spec, FairSpec).  An async function is split at its awaits: one action *)
(* per continuation.  The remote service is the environment: every status  *)
(* query is answered by any response of the set Responses, or fails.       *)
(* CheckSpec is the same component with its "Check Status Manually" button *)
(* in use; checkStatus reads and writes none of the loop's variables.      *)
(*                                                                         *)
(* The converter between the remote and the local conventions of a patch   *)
(* record, lib/coordinateUtils.ts, applied to remote records and back, and *)
(* to records of the canvas and back (ConvSpec).                           *)
(*                                                                         *)
(* The canvas, InteractiveCanvas with its editor and its property editor:  *)
(* patches are placed, dragged, selected, edited and removed, and replaced *)
(* by the records of a parsed result (CanvasSpec).                         *)
(***************************************************************************)
EXTENDS Integers, Sequences, FiniteSets, TLC

\* ------------------------------------------------------------------ bounds
\* Longest output list a status response carries.
MaxOut == 1
\* Remote rotations given to the converter: the quarters from -MaxRotation/4
\* to MaxRotation/4 radians.
MaxRotation == 32
\* Remote colour channels given to the converter: j/512 for j up to MaxColour.
MaxColour == 512
\* Remote scale, squeeze and shear given to the converter: the halves from
\* -1/2 to MaxShape/2.
MaxShape == 2
\* Most patches on the canvas after one is placed by hand, and most property
\* edits made.
MaxPatches == 1
MaxEdits == 1
\* Colour channels of the canvas given to the converter: the whole numbers up
\* to MaxChannel, the upper end of the colour sliders.
MaxChannel == 256
\* Most status queries of checkStatus in flight at once.
MaxChecks == 1

\* ------------------------------------------------------- program constants
maxAttempts == 180
InitialDelay == 1000
ProcessingDelay == 2000
MaxDelay == 5000
MaxErrorDelay == 10000
\* The side of the square stage before the window is measured.
StageSize == 500

Min(a, b) == IF a < b THEN a ELSE b

\* ---------------------------------------------------------- remote service
Statuses == {"starting", "processing", "succeeded", "failed", "canceled"}

\* An absent error and an empty one are the same to `prediction.error || ...`.
NoDetail == ""
ErrorDetails == {NoDetail, "bad prompt"}

\* What a status query can resolve with.  output is the length of the output
\* list; 0 stands for an absent, null or empty list, which the code's test
\* `prediction.output && prediction.output.length > 0` does not tell apart.
\* error is read on a failed or canceled response only.
Responses ==
    [status : {"starting", "processing", "succeeded"}, output : 0..MaxOut, error : {NoDetail}]
    \cup [status : {"failed", "canceled"}, output : 0..MaxOut, error : ErrorDetails]

\* `let prediction` before its first assignment.
Undefined == [status |-> "undefined", output |-> 0, error |-> NoDetail]

\* ------------------------------------------------------------------ messages
TimeoutMessage == "Polling timed out. The image may still be generating in the background."
DefaultFailure == "Prediction failed"
NoOutputMessage == "No output generated"
QueryError == "Error getting prediction"
CreateError == "Error creating prediction"

\* A status line: its wording, the status or error text it quotes, the number
\* it quotes.
Message(kind, detail, n) == [kind |-> kind, detail |-> detail, n |-> n]

VARIABLES
    \* React state of the component; of parsedPatches, whether it holds any
    \* patch (all the component reads of it is parsedPatches.length > 0)
    isGenerating, generatedResults, statusMessage, predictionId,
    parsedPatches, isVisualizing,
    \* the onPatchesVisualize prop: given or not
    onPatchesVisualize,
    \* onSubmit: where it is suspended, its loading toast, how its last call ended
    submitPc, loadingToast, outcome, outcomeMessage,
    \* pollPrediction: its locals and where it is suspended
    pollPc, prediction, attempts, delay, lastOutputLength,
    \* pollPrediction's promise
    pollOutcome, pollError, pollValue,
    \* observations of the current run of the loop
    queries, inFlight, waits, lastWait, caught, progressLog, sawTerminal, settleCount,
    \* checkStatus: its status queries in flight, and whether its success toast
    \* has been shown
    checkInFlight, foundToast

compVars == <<isGenerating, generatedResults, statusMessage, predictionId,
              parsedPatches, isVisualizing, onPatchesVisualize>>
submitVars == <<submitPc, loadingToast, outcome, outcomeMessage>>
pollVars == <<pollPc, prediction, attempts, delay, lastOutputLength>>
promiseVars == <<pollOutcome, pollError, pollValue>>
obsVars == <<queries, inFlight, waits, lastWait, caught, progressLog, sawTerminal, settleCount>>
checkVars == <<checkInFlight, foundToast>>
formVars == <<compVars, submitVars, pollVars, promiseVars, obsVars, checkVars>>

VARIABLES
    \* a use of the converter: how far it went, the remote record it was given,
    \* the local record made of it and the remote record made of that
    convPc, remote, local, back,
    \* the canvas: the parsedPatches prop it was last given, its placed
    \* patches, the selected one (its place in the list, 0 for none), the number
    \* of property edits made, and the handler that ran last
    canvasParsed, placedPatches, selectedPatchId, edits, canvasOp

convVars == <<convPc, remote, local, back>>
canvasVars == <<canvasParsed, placedPatches, selectedPatchId, edits, canvasOp>>
editorVars == <<convVars, canvasVars>>
vars == <<formVars, editorVars>>

\* ------------------------------------------------- pollPrediction's tests

\* if (prediction.status === "failed" || prediction.status === "canceled")
IsTerminalFailure(p) == p.status \in {"failed", "canceled"}

\* new Error(prediction.error || "Prediction failed")
FailureMessage(p) == IF p.error # NoDetail THEN p.error ELSE DefaultFailure

\* if (prediction.output && prediction.output.length > 0)
HasOutput(p) == p.output > 0

\* if (prediction.output.length > lastOutputLength)
HasNewResultsOrSame(p, last) == p.output >= last
HasNewResults(p, last) == p.output > last

\* if (prediction.status === "succeeded") inside the output branch
IsSucceededTypo(p) == p.status = "completed"
IsSucceeded(p) == p.status = "succeeded"

\* The dynamic backoff: 2000 ms while processing, else delay * 1.5 up to 5000.
\* Every delay the loop reaches is 1000, 1500, 2250, 3375, 2000, 3000, 4500 or
\* 5000: delay * 1.5 is a whole number or above the ceiling.
NextDelayNoCeiling(p, d) ==
    IF p.status = "processing" THEN ProcessingDelay ELSE (d * 3) \div 2
NextDelay(p, d) ==
    IF p.status = "processing" THEN ProcessingDelay ELSE Min((d * 3) \div 2, MaxDelay)

\* Math.min(delay * 2, 10000)
ErrorDelayTriple(d) == Min(d * 3, MaxErrorDelay)
ErrorDelay(d) == Min(d * 2, MaxErrorDelay)

\* The do ... while condition.
ContinueLoopOffByOne(a, p) ==
    /\ a <= maxAttempts
    /\ \/ p = Undefined
       \/ p.status \notin {"succeeded", "failed", "canceled"}
ContinueLoopUntilOutput(a, p) ==
    /\ a < maxAttempts
    /\ \/ p = Undefined
       \/ p.status \notin {"succeeded", "failed", "canceled"}
       \/ p.status = "succeeded" /\ p.output = 0
ContinueLoop(a, p) ==
    /\ a < maxAttempts
    /\ \/ p = Undefined
       \/ p.status \notin {"succeeded", "failed", "canceled"}

\* if (attempts >= maxAttempts) after the loop
TimedOutStrict(a) == a > maxAttempts
TimedOut(a) == a >= maxAttempts

\* ----------------------------------------------------------------- numbers
\* A JavaScript number is modelled by the rational it stands for, kept as a
\* sign and two naturals of any size; a natural is its sequence of base-10000
\* digits, lowest first, without leading zeros.  The arithmetic of the
\* converter is then exact, which differs from IEEE double arithmetic by a
\* relative 2^-53 per operation: where that difference decides the result
\* (the sum in pythonToJsRotation) the rounding of the double is modelled.

RECURSIVE BigNorm(_)
BigNorm(a) ==
    IF a = <<>> THEN a
    ELSE IF a[Len(a)] = 0 THEN BigNorm(SubSeq(a, 1, Len(a) - 1)) ELSE a

RECURSIVE BigOf(_)
BigOf(n) == IF n = 0 THEN <<>> ELSE <<n % 10000>> \o BigOf(n \div 10000)

Digit(a, i) == IF i <= Len(a) THEN a[i] ELSE 0

RECURSIVE BigAddFrom(_, _, _, _)
BigAddFrom(a, b, i, carry) ==
    IF i > Len(a) /\ i > Len(b)
    THEN IF carry = 0 THEN <<>> ELSE <<carry>>
    ELSE LET s == Digit(a, i) + Digit(b, i) + carry IN
         <<s % 10000>> \o BigAddFrom(a, b, i + 1, s \div 10000)
BigAdd(a, b) == BigAddFrom(a, b, 1, 0)

\* a - b for a >= b
RECURSIVE BigSubFrom(_, _, _, _)
BigSubFrom(a, b, i, borrow) ==
    IF i > Len(a) THEN <<>>
    ELSE LET d == Digit(a, i) - Digit(b, i) - borrow IN
         IF d < 0 THEN <<d + 10000>> \o BigSubFrom(a, b, i + 1, 1)
         ELSE <<d>> \o BigSubFrom(a, b, i + 1, 0)
BigSub(a, b) == BigNorm(BigSubFrom(a, b, 1, 0))

\* a times one digit d
RECURSIVE BigScaleFrom(_, _, _, _)
BigScaleFrom(a, d, i, carry) ==
    IF i > Len(a)
    THEN IF carry = 0 THEN <<>> ELSE <<carry>>
    ELSE LET p == a[i] * d + carry IN
         <<p % 10000>> \o BigScaleFrom(a, d, i + 1, p \div 10000)

RECURSIVE BigMulFrom(_, _, _)
BigMulFrom(a, b, j) ==
    IF j > Len(b) THEN <<>>
    ELSE BigAdd(BigScaleFrom(a, b[j], 1, 0), <<0>> \o BigMulFrom(a, b, j + 1))
BigMul(a, b) == BigNorm(BigMulFrom(a, b, 1))

RECURSIVE BigLessFrom(_, _, _)
BigLessFrom(a, b, i) ==
    IF i = 0 THEN FALSE
    ELSE IF a[i] # b[i] THEN a[i] < b[i] ELSE BigLessFrom(a, b, i - 1)
BigLess(a, b) ==
    IF Len(a) # Len(b) THEN Len(a) < Len(b) ELSE BigLessFrom(a, b, Len(a))

RECURSIVE Pow10(_)
Pow10(e) == IF e = 0 THEN <<1>> ELSE BigNorm(BigScaleFrom(Pow10(e - 1), 10, 1, 0))

Abs(n) == IF n < 0 THEN 0 - n ELSE n

\* The number n / d for integers n and d > 0, and the decimal literal
\* m * 10^-e.  Zero is never negative.
Frac(n, d) == [neg |-> n < 0, num |-> BigOf(Abs(n)), den |-> BigOf(d)]
Dec(m, e) == [neg |-> m < 0, num |-> BigOf(Abs(m)), den |-> Pow10(e)]
Whole(n) == Frac(n, 1)

IsZero(a) == a.num = <<>>
NumNeg(a) == IF IsZero(a) THEN a ELSE [a EXCEPT !.neg = ~a.neg]
NumEq(a, b) == a.neg = b.neg /\ BigMul(a.num, b.den) = BigMul(b.num, a.den)
NumLess(a, b) ==
    LET l == BigMul(a.num, b.den)
        r == BigMul(b.num, a.den)
    IN  IF a.neg # b.neg THEN a.neg
        ELSE IF a.neg THEN BigLess(r, l) ELSE BigLess(l, r)
NumLeq(a, b) == ~NumLess(b, a)
NumAdd(a, b) ==
    LET l == BigMul(a.num, b.den)
        r == BigMul(b.num, a.den)
        d == BigMul(a.den, b.den)
    IN  IF a.neg = b.neg THEN [neg |-> a.neg, num |-> BigAdd(l, r), den |-> d]
        ELSE IF l = r THEN [neg |-> FALSE, num |-> <<>>, den |-> d]
        ELSE IF BigLess(l, r) THEN [neg |-> b.neg, num |-> BigSub(r, l), den |-> d]
        ELSE [neg |-> a.neg, num |-> BigSub(l, r), den |-> d]
NumSub(a, b) == NumAdd(a, NumNeg(b))
NumMul(a, b) ==
    LET n == BigMul(a.num, b.num) IN
    [neg |-> (n # <<>>) /\ (a.neg # b.neg), num |-> n, den |-> BigMul(a.den, b.den)]
\* a / b for b # 0
NumDiv(a, b) ==
    LET n == BigMul(a.num, b.den) IN
    [neg |-> (n # <<>>) /\ (a.neg # b.neg), num |-> n, den |-> BigMul(a.den, b.num)]
NumAbs(a) == [a EXCEPT !.neg = FALSE]
NumMin(a, b) == IF NumLess(b, a) THEN b ELSE a

\* The largest whole number that is not above a number: a power of two above
\* it is found by doubling, and the whole number by halving the interval.
RECURSIVE PowerAbove(_, _)
PowerAbove(a, h) == IF NumLess(a, Whole(h)) THEN h ELSE PowerAbove(a, 2 * h)
RECURSIVE FloorIn(_, _, _)
FloorIn(a, lo, hi) ==
    IF hi - lo = 1 THEN lo
    ELSE LET mid == (lo + hi) \div 2 IN
         IF NumLess(a, Whole(mid)) THEN FloorIn(a, lo, mid) ELSE FloorIn(a, mid, hi)
FloorOfPositive(a) == FloorIn(a, 0, PowerAbove(a, 1))
Floor(a) ==
    IF ~a.neg THEN FloorOfPositive(a)
    ELSE LET f == FloorOfPositive(NumAbs(a)) IN
         IF NumEq(Whole(f), NumAbs(a)) THEN 0 - f ELSE 0 - (f + 1)

\* Math.round: the nearest whole number, a half going up.
MathRound(a) == Whole(Floor(NumAdd(a, Frac(1, 2))))

\* a % m of JavaScript: the remainder has the sign of the dividend and is
\* exact in doubles.
ModOfPositive(a, m) == NumSub(a, NumMul(m, Whole(FloorOfPositive(NumDiv(a, m)))))
JsMod(a, m) == IF a.neg THEN NumNeg(ModOfPositive(NumAbs(a), m)) ELSE ModOfPositive(a, m)

\* --------------------------------------------------------------- converter
\* lib/coordinateUtils.ts.  A patch record is the set of the optional fields
\* it has and a number for each field; a field it does not have holds zero and
\* is never read.
PatchFields == {"rotation", "scale", "squeeze", "shear", "red", "green", "blue"}
Zero == Whole(0)
ColourFields == {"red", "green", "blue"}
NoFields ==
    [has |-> {}, rotation |-> Zero, scale |-> Zero, squeeze |-> Zero, shear |-> Zero,
     red |-> Zero, green |-> Zero, blue |-> Zero]
Defined(patch, fields) == fields \subseteq patch.has

\* 2^-45, half the distance between neighbouring doubles in [256, 512)
HalfUlpOf360 ==
    [neg |-> FALSE, num |-> <<1>>,
     den |-> BigMul(BigOf(32768), BigMul(BigOf(32768), BigOf(32768)))]

\* jsRotation += 360 for a negative remainder: the sum of doubles is rounded
\* to the nearest double, so a remainder within 2^-45 of zero gives 360 itself.
PlusFullTurn(jsRotation) ==
    IF NumLeq(NumNeg(HalfUlpOf360), jsRotation)
    THEN Whole(360)
    ELSE NumAdd(jsRotation, Whole(360))

pythonToJsRotationShortFactor(rotation) ==
    LET jsRotation == JsMod(NumMul(rotation, Dec(5566, 2)), Whole(360)) IN
    IF jsRotation.neg THEN PlusFullTurn(jsRotation) ELSE jsRotation
pythonToJsRotation(rotation) ==
    LET jsRotation == JsMod(NumMul(rotation, Dec(556635311, 7)), Whole(360)) IN
    IF jsRotation.neg THEN PlusFullTurn(jsRotation) ELSE jsRotation

jsToPythonRotationShortFactor(rotation) == NumDiv(rotation, Dec(5566, 2))
jsToPythonRotation(rotation) == NumDiv(rotation, Dec(556635311, 7))

pythonToJsScale(scale, squeeze, shear) ==
    NumAdd(NumAdd(NumMul(scale, Dec(80003054, 8)), NumMul(squeeze, Dec(17701143, 9))),
           NumMul(shear, Dec(16935179, 9)))

jsToPythonScale(scale, squeeze) ==
    NumDiv(NumSub(scale, NumMul(squeeze, Dec(642944, 7))), Dec(80003054, 8))

pythonToJsSqueeze(scale, squeeze) ==
    NumAdd(NumMul(scale, Dec(64294401, 9)), NumMul(squeeze, Dec(870305, 8)))

jsToPythonSqueeze(squeeze) == squeeze

pythonToJsShear(squeeze, shear) ==
    NumAdd(NumMul(squeeze, Dec(13955148, 9)), NumMul(shear, Dec(939783266, 9)))

jsToPythonShear(shear, scale) ==
    NumDiv(NumSub(shear, NumMul(scale, Dec(1693518, 8))), Dec(93978327, 8))

pythonToJsColorNoCeiling(color) == MathRound(NumMul(color, Whole(256)))
pythonToJsColor(color) == NumMin(MathRound(NumMul(color, Whole(256))), Whole(255))

jsToPythonColorBy255(color) == NumDiv(color, Whole(255))
jsToPythonColor(color) == NumDiv(color, Whole(256))

\* The converters of a whole record.  The record is changed field by field, in
\* the order of the code: a conversion that reads result.scale or
\* result.squeeze reads what the conversions before it have left there.
\* The same with the shear converted whenever the record has a shear.
convertPatchFromPythonToJsAnyShear(patch) ==
    LET scale == IF Defined(patch, {"scale", "squeeze", "shear"})
                 THEN pythonToJsScale(patch.scale, patch.squeeze, patch.shear)
                 ELSE patch.scale
        squeeze == IF Defined(patch, {"scale", "squeeze"})
                   THEN pythonToJsSqueeze(scale, patch.squeeze)
                   ELSE patch.squeeze
        shear == IF Defined(patch, {"shear"})
                 THEN pythonToJsShear(scale, patch.shear)
                 ELSE patch.shear
        Colour(f) == IF Defined(patch, {f}) THEN pythonToJsColor(patch[f]) ELSE patch[f]
    IN  [patch EXCEPT
            !.rotation = IF Defined(patch, {"rotation"}) THEN pythonToJsRotation(@) ELSE @,
            !.scale = scale,
            !.squeeze = squeeze,
            !.shear = shear,
            !.red = Colour("red"),
            !.green = Colour("green"),
            !.blue = Colour("blue")]

convertPatchFromPythonToJs(patch) ==
    LET scale == IF Defined(patch, {"scale", "squeeze", "shear"})
                 THEN pythonToJsScale(patch.scale, patch.squeeze, patch.shear)
                 ELSE patch.scale
        squeeze == IF Defined(patch, {"scale", "squeeze"})
                   THEN pythonToJsSqueeze(scale, patch.squeeze)
                   ELSE patch.squeeze
        shear == IF Defined(patch, {"scale", "shear"})
                 THEN pythonToJsShear(scale, patch.shear)
                 ELSE patch.shear
        Colour(f) == IF Defined(patch, {f}) THEN pythonToJsColor(patch[f]) ELSE patch[f]
    IN  [patch EXCEPT
            !.rotation = IF Defined(patch, {"rotation"}) THEN pythonToJsRotation(@) ELSE @,
            !.scale = scale,
            !.squeeze = squeeze,
            !.shear = shear,
            !.red = Colour("red"),
            !.green = Colour("green"),
            !.blue = Colour("blue")]

\* The same with the scale converted before the shear, which then reads the
\* converted scale.
convertPatchFromJsToPythonScaleFirst(patch) ==
    LET squeeze == IF Defined(patch, {"squeeze"})
                   THEN jsToPythonSqueeze(patch.squeeze)
                   ELSE patch.squeeze
        scale == IF Defined(patch, {"scale", "squeeze"})
                 THEN jsToPythonScale(patch.scale, squeeze)
                 ELSE patch.scale
        shear == IF Defined(patch, {"scale", "shear"})
                 THEN jsToPythonShear(patch.shear, scale)
                 ELSE patch.shear
        Colour(f) == IF Defined(patch, {f}) THEN jsToPythonColor(patch[f]) ELSE patch[f]
    IN  [patch EXCEPT
            !.rotation = IF Defined(patch, {"rotation"}) THEN jsToPythonRotation(@) ELSE @,
            !.shear = shear,
            !.squeeze = squeeze,
            !.scale = scale,
            !.red = Colour("red"),
            !.green = Colour("green"),
            !.blue = Colour("blue")]

convertPatchFromJsToPython(patch) ==
    LET shear == IF Defined(patch, {"scale", "shear"})
                 THEN jsToPythonShear(patch.shear, patch.scale)
                 ELSE patch.shear
        squeeze == IF Defined(patch, {"squeeze"})
                   THEN jsToPythonSqueeze(patch.squeeze)
                   ELSE patch.squeeze
        scale == IF Defined(patch, {"scale", "squeeze"})
                 THEN jsToPythonScale(patch.scale, squeeze)
                 ELSE patch.scale
        Colour(f) == IF Defined(patch, {f}) THEN jsToPythonColor(patch[f]) ELSE patch[f]
    IN  [patch EXCEPT
            !.rotation = IF Defined(patch, {"rotation"}) THEN jsToPythonRotation(@) ELSE @,
            !.shear = shear,
            !.squeeze = squeeze,
            !.scale = scale,
            !.red = Colour("red"),
            !.green = Colour("green"),
            !.blue = Colour("blue")]

\* ------------------------------------------------------------------- Init
FormInit ==
    /\ isGenerating = FALSE
    /\ generatedResults = 0
    /\ statusMessage = Message("", "", 0)
    /\ predictionId = "null"
    /\ parsedPatches = FALSE
    /\ isVisualizing = FALSE
    /\ onPatchesVisualize \in BOOLEAN
    /\ submitPc = "idle"
    /\ loadingToast = "none"
    /\ outcome = "none"
    /\ outcomeMessage = ""
    /\ pollPc = "none"
    /\ prediction = Undefined
    /\ attempts = 0
    /\ delay = InitialDelay
    /\ lastOutputLength = 0
    /\ pollOutcome = "pending"
    /\ pollError = ""
    /\ pollValue = Undefined
    /\ queries = 0
    /\ inFlight = 0
    /\ waits = 0
    /\ lastWait = 0
    /\ caught = "none"
    /\ progressLog = <<>>
    /\ sawTerminal = FALSE
    /\ settleCount = 0
    /\ checkInFlight = 0
    /\ foundToast = FALSE

\* The converter is not in use.
ConverterOff ==
    /\ convPc = "off"
    /\ remote = NoFields
    /\ local = NoFields
    /\ back = NoFields

\* The canvas as it is mounted: nothing parsed, nothing placed or selected.
CanvasEmpty ==
    /\ canvasParsed = <<>>
    /\ placedPatches = <<>>
    /\ selectedPatchId = 0
    /\ edits = 0
    /\ canvasOp = "none"

Init == FormInit /\ ConverterOff /\ CanvasEmpty

\* --------------------------------------------------------------- onSubmit

\* No call of pollPrediction is live: its locals and its promise are gone.
NoPoll ==
    /\ pollPc' = "none"
    /\ prediction' = Undefined
    /\ attempts' = 0
    /\ delay' = InitialDelay
    /\ lastOutputLength' = 0
    /\ pollOutcome' = "pending"
    /\ pollError' = ""
    /\ pollValue' = Undefined
    /\ queries' = 0
    /\ inFlight' = 0
    /\ waits' = 0
    /\ lastWait' = 0
    /\ caught' = "none"
    /\ progressLog' = <<>>
    /\ sawTerminal' = FALSE
    /\ settleCount' = 0

\* onSubmit with data that fails its own validation: an error toast, return.
SubmitInvalid ==
    /\ ~isGenerating
    /\ submitPc = "idle"
    /\ outcome' = "invalid"
    /\ outcomeMessage' = "Please enter a text prompt"
    /\ UNCHANGED <<compVars, submitPc, loadingToast, pollVars, promiseVars, obsVars>>
    /\ UNCHANGED <<checkVars, editorVars>>

\* onSubmit up to `await createPrediction(data)`.
SubmitStart ==
    /\ ~isGenerating
    /\ submitPc = "idle"
    /\ isGenerating' = TRUE
    /\ generatedResults' = 0
    /\ statusMessage' = Message("Starting generation...", "", 0)
    /\ predictionId' = "null"
    /\ loadingToast' = "open"
    /\ submitPc' = "creating"
    /\ outcome' = "none"
    /\ outcomeMessage' = ""
    /\ UNCHANGED <<parsedPatches, isVisualizing, onPatchesVisualize,
                   pollVars, promiseVars, obsVars>>
    /\ UNCHANGED <<checkVars, editorVars>>

\* A catch without the finally block.
SubmitFailsNoFinally(msg) ==
    /\ statusMessage' = Message("Failed", msg, 0)
    /\ outcome' = "error"
    /\ outcomeMessage' = msg
    /\ UNCHANGED isGenerating
    /\ submitPc' = "idle"

\* onSubmit's catch and finally.
SubmitFails(msg) ==
    /\ statusMessage' = Message("Failed", msg, 0)
    /\ outcome' = "error"
    /\ outcomeMessage' = msg
    /\ isGenerating' = FALSE
    /\ submitPc' = "idle"

\* createPrediction throws: onSubmit's catch, with the loading toast left as it is.
CreateRejected ==
    /\ submitPc = "creating"
    /\ SubmitFails(CreateError)
    /\ UNCHANGED <<generatedResults, predictionId, parsedPatches, isVisualizing,
                   onPatchesVisualize, loadingToast, pollVars, promiseVars, obsVars>>
    /\ UNCHANGED <<checkVars, editorVars>>

\* createPrediction resolves: pollPrediction starts and issues its first query.
CreateResolved ==
    /\ submitPc = "creating"
    /\ predictionId' = "id"
    /\ statusMessage' = Message("Created prediction", "id", 0)
    /\ submitPc' = "polling"
    /\ prediction' = Undefined
    /\ delay' = InitialDelay
    /\ lastOutputLength' = 0
    /\ attempts' = attempts + 1
    /\ queries' = queries + 1
    /\ inFlight' = inFlight + 1
    /\ pollPc' = "awaitGet"
    /\ UNCHANGED <<isGenerating, generatedResults, parsedPatches, isVisualizing,
                   onPatchesVisualize, loadingToast, outcome, outcomeMessage,
                   promiseVars, waits, lastWait, caught, progressLog, sawTerminal,
                   settleCount>>
    /\ UNCHANGED <<checkVars, editorVars>>


\* --------------------------------------------------------- pollPrediction

\* `return prediction`: the promise of pollPrediction is fulfilled.
Resolve(p) ==
    /\ pollPc' = "settled"
    /\ pollOutcome' = "resolved"
    /\ pollValue' = p
    /\ pollError' = pollError
    /\ settleCount' = settleCount + 1

\* A throw that leaves pollPrediction: its promise is rejected.
Reject(msg) ==
    /\ pollPc' = "settled"
    /\ pollOutcome' = "rejected"
    /\ pollError' = msg
    /\ pollValue' = pollValue
    /\ settleCount' = settleCount + 1

\* A catch block that keeps the doubled delay for the waits to come.
CatchInLoopCompounding(msg, kind) ==
    /\ statusMessage' = Message("Error checking status", msg, 0)
    /\ pollPc' = "errorWait"
    /\ waits' = waits + 1
    /\ delay' = ErrorDelay(delay)
    /\ lastWait' = delay'
    /\ caught' = kind
    /\ UNCHANGED <<promiseVars, settleCount>>

\* The catch block of the loop body, up to its await of the timer.
CatchInLoop(msg, kind) ==
    /\ statusMessage' = Message("Error checking status", msg, 0)
    /\ pollPc' = "errorWait"
    /\ waits' = waits + 1
    /\ lastWait' = ErrorDelay(delay)
    /\ caught' = kind
    /\ UNCHANGED <<delay, promiseVars, settleCount>>

\* getPrediction resolves with resp: the try block from the assignment of
\* prediction to its next await or its return.
GetResolved(resp) ==
    /\ pollPc = "awaitGet"
    /\ inFlight' = inFlight - 1
    /\ prediction' = resp
    /\ sawTerminal' = (sawTerminal \/ resp.status \in {"succeeded", "failed", "canceled"})
    /\ IF IsTerminalFailure(resp)
       THEN \* throw new Error(...), caught by the catch of the same try
            /\ CatchInLoop(FailureMessage(resp), "terminal")
            /\ UNCHANGED <<generatedResults, lastOutputLength, progressLog, isVisualizing>>
       ELSE LET fresh == HasOutput(resp) /\ HasNewResults(resp, lastOutputLength) IN
            /\ generatedResults' = IF fresh THEN resp.output ELSE generatedResults
            /\ lastOutputLength' = IF fresh THEN resp.output ELSE lastOutputLength
            /\ progressLog' = IF fresh THEN Append(progressLog, resp.output) ELSE progressLog
            /\ IF HasOutput(resp) /\ IsSucceeded(resp)
               THEN /\ statusMessage' = Message("Vector graphics generation completed!", "", 0)
                    /\ IF onPatchesVisualize
                       THEN \* await fetchAndParseJson(jsonUrl)
                            /\ isVisualizing' = TRUE
                            /\ pollPc' = "awaitJson"
                            /\ UNCHANGED <<promiseVars, settleCount>>
                       ELSE /\ Resolve(resp)
                            /\ UNCHANGED isVisualizing
                    /\ UNCHANGED <<delay, waits, lastWait, caught>>
               ELSE \* await new Promise(resolve => setTimeout(resolve, delay))
                    /\ delay' = NextDelay(resp, delay)
                    /\ lastWait' = delay'
                    /\ waits' = waits + 1
                    /\ pollPc' = "wait"
                    /\ statusMessage' =
                          IF fresh /\ resp.status = "processing"
                          THEN Message("Generating vector graphics...", "", resp.output)
                          ELSE Message("Status", resp.status, attempts)
                    /\ UNCHANGED <<caught, isVisualizing, promiseVars, settleCount>>
    /\ UNCHANGED <<isGenerating, predictionId, parsedPatches, onPatchesVisualize,
                   submitVars, attempts, queries>>
    /\ UNCHANGED <<checkVars, editorVars>>

\* getPrediction throws (network or parse error): the catch block.
GetRejected ==
    /\ pollPc = "awaitGet"
    /\ inFlight' = inFlight - 1
    /\ CatchInLoop(QueryError, "query")
    /\ UNCHANGED <<isGenerating, generatedResults, predictionId, parsedPatches,
                   isVisualizing, onPatchesVisualize, submitVars, prediction, attempts,
                   lastOutputLength, queries, progressLog, sawTerminal>>
    /\ UNCHANGED <<checkVars, editorVars>>

\* fetchAndParseJson resolves with a list of patches, some or none (none when
\* the fetch failed, which it catches itself); pollPrediction returns the
\* prediction.
JsonDone(some) ==
    /\ pollPc = "awaitJson"
    /\ parsedPatches' = some
    /\ isVisualizing' = FALSE
    /\ Resolve(prediction)
    /\ UNCHANGED <<isGenerating, generatedResults, statusMessage, predictionId,
                   onPatchesVisualize, submitVars, prediction, attempts, delay,
                   lastOutputLength, queries, inFlight, waits, lastWait, caught,
                   progressLog, sawTerminal>>
    /\ UNCHANGED <<checkVars, editorVars>>

\* The timer of either wait fires and the while condition holds: next attempt.
WaitContinueNoAwait ==
    /\ pollPc \in {"awaitGet", "wait", "errorWait"}
    /\ ContinueLoop(attempts, prediction)
    /\ attempts' = attempts + 1
    /\ queries' = queries + 1
    /\ inFlight' = inFlight + 1
    /\ caught' = "none"
    /\ pollPc' = "awaitGet"
    /\ UNCHANGED <<compVars, submitVars, prediction, delay, lastOutputLength,
                   promiseVars, waits, lastWait, progressLog, sawTerminal, settleCount>>
    /\ UNCHANGED <<checkVars, editorVars>>
WaitContinue ==
    /\ pollPc \in {"wait", "errorWait"}
    /\ ContinueLoop(attempts, prediction)
    /\ attempts' = attempts + 1
    /\ queries' = queries + 1
    /\ inFlight' = inFlight + 1
    /\ caught' = "none"
    /\ pollPc' = "awaitGet"
    /\ UNCHANGED <<compVars, submitVars, prediction, delay, lastOutputLength,
                   promiseVars, waits, lastWait, progressLog, sawTerminal, settleCount>>
    /\ UNCHANGED <<checkVars, editorVars>>

\* The timer fires and the while condition fails: the code after the loop.
LoopExit ==
    /\ pollPc \in {"wait", "errorWait"}
    /\ ~ContinueLoop(attempts, prediction)
    /\ IF TimedOut(attempts) THEN Reject(TimeoutMessage) ELSE Resolve(prediction)
    /\ UNCHANGED <<compVars, submitVars, prediction, attempts, delay, lastOutputLength,
                   queries, inFlight, waits, lastWait, caught, progressLog, sawTerminal>>
    /\ UNCHANGED <<checkVars, editorVars>>

\* onSubmit after `await pollPrediction(prediction.id)`.
AfterPoll ==
    /\ submitPc = "polling"
    /\ pollPc = "settled"
    /\ IF pollOutcome = "resolved"
       THEN /\ loadingToast' = "dismissed"
            /\ IF HasOutput(pollValue)
               THEN /\ generatedResults' = pollValue.output
                    /\ outcome' = "success"
                    /\ outcomeMessage' = "Vector graphics generated successfully!"
                    /\ isGenerating' = FALSE
                    /\ submitPc' = "idle"
                    /\ UNCHANGED statusMessage
               ELSE /\ SubmitFails(NoOutputMessage)
                    /\ UNCHANGED generatedResults
       ELSE /\ SubmitFails(pollError)
            /\ UNCHANGED <<loadingToast, generatedResults>>
    /\ NoPoll
    /\ UNCHANGED <<predictionId, parsedPatches, isVisualizing, onPatchesVisualize>>
    /\ UNCHANGED <<checkVars, editorVars>>

PollStep ==
    \/ \E resp \in Responses : GetResolved(resp)
    \/ GetRejected
    \/ \E some \in BOOLEAN : JsonDone(some)
    \/ WaitContinue
    \/ LoopExit

Next ==
    \/ SubmitInvalid
    \/ SubmitStart
    \/ CreateRejected
    \/ CreateResolved
    \/ \E resp \in Responses : GetResolved(resp)
    \/ GetRejected
    \/ \E some \in BOOLEAN : JsonDone(some)
    \/ WaitContinue
    \/ LoopExit
    \/ AfterPoll

Spec == Init /\ [][Next]_vars

\* Timers fire, requests are answered or fail, and a settled promise runs its
\* continuation; nobody is bound to submit the form.
Fairness == WF_vars(CreateRejected \/ CreateResolved \/ PollStep \/ AfterPoll)

FairSpec == Spec /\ Fairness

\* ------------------------------------------------------------ checkStatus
\* The form with its "Check Status Manually" button in use.  The button is on
\* screen while there is a status message and a prediction id and no result.

\* What a status query of checkStatus resolves with: a job under way, or a
\* job done with its output.
CheckResponses ==
    {[status |-> "processing", output |-> 0, error |-> NoDetail],
     [status |-> "succeeded", output |-> 1, error |-> NoDetail]}

ButtonShown ==
    /\ statusMessage # Message("", "", 0)
    /\ predictionId # "null"
    /\ generatedResults = 0

CheckFrame ==
    UNCHANGED <<isGenerating, predictionId, parsedPatches, isVisualizing,
                onPatchesVisualize, submitVars, pollVars, promiseVars, obsVars,
                editorVars>>

\* checkStatus up to `await getPrediction(predictionId)`.
checkStatus ==
    /\ ButtonShown
    /\ checkInFlight < MaxChecks
    /\ statusMessage' = Message("Manually checking status...", "", 0)
    /\ checkInFlight' = checkInFlight + 1
    /\ UNCHANGED <<generatedResults, foundToast>>
    /\ CheckFrame

\* getPrediction resolves with resp: the rest of checkStatus's try block.
CheckResolved(resp) ==
    /\ checkInFlight > 0
    /\ checkInFlight' = checkInFlight - 1
    /\ statusMessage' = Message("Current status", resp.status,
                                IF HasOutput(resp) THEN 1 ELSE 0)
    /\ IF IsSucceeded(resp) /\ HasOutput(resp)
       THEN /\ generatedResults' = resp.output
            /\ foundToast' = TRUE
       ELSE UNCHANGED <<generatedResults, foundToast>>
    /\ CheckFrame

\* getPrediction throws: checkStatus's catch block.
CheckRejected ==
    /\ checkInFlight > 0
    /\ checkInFlight' = checkInFlight - 1
    /\ statusMessage' = Message("Error checking status", QueryError, 0)
    /\ UNCHANGED <<generatedResults, foundToast>>
    /\ CheckFrame

CheckNext ==
    \/ Next
    \/ checkStatus
    \/ \E resp \in CheckResponses : CheckResolved(resp)
    \/ CheckRejected

CheckSpec == Init /\ [][CheckNext]_vars

\* ------------------------------------------------------ using the converter
\* A remote record is converted to a local one, and that one back.  The
\* records given to the converter: a rotation alone, the three colour channels,
\* or any of scale, squeeze and shear.
RemoteRotations ==
    {Frac(j, 4) : j \in (0 - MaxRotation)..MaxRotation}
    \cup {Dec(0 - 1, 17), Dec(112877950, 9), Dec(112877951, 9),
          Dec(64674301, 7), Dec(64674302, 7)}
RemoteColours == {Frac(j, 512) : j \in 0..MaxColour}
RemoteShapes == {Frac(j, 2) : j \in (0 - 1)..MaxShape}

\* Channels outside [0,1], which nothing in the converter refuses.
RemoteColoursOutside ==
    {Frac(0 - 1, 2), Frac(0 - 1, 512), Frac(0 - 3, 1024), Frac(3, 2), Whole(2)}

\* The records that have the fields of `has` among scale, squeeze and shear.
ShapeRecords(has, values) ==
    {[NoFields EXCEPT !.has = has,
                      !.scale = IF "scale" \in has THEN a ELSE Zero,
                      !.squeeze = IF "squeeze" \in has THEN b ELSE Zero,
                      !.shear = IF "shear" \in has THEN c ELSE Zero] :
        a \in values, b \in values, c \in values}

\* A record that carries fields the converter has no business with.
WithPlace(patch) == patch @@ [library |-> "animals", x |-> Frac(1, 2), y |-> Zero]

RemoteInputs ==
    {[NoFields EXCEPT !.has = {"rotation"}, !.rotation = r] : r \in RemoteRotations}
    \cup {[NoFields EXCEPT !.has = {"red", "green", "blue"},
                           !.red = Frac(j, 512), !.green = Frac(MaxColour - j, 512),
                           !.blue = Frac(j, 512)] : j \in 0..MaxColour}
    \cup {[NoFields EXCEPT !.has = {"scale"}, !.scale = a] : a \in RemoteShapes}
    \cup {[NoFields EXCEPT !.has = {"scale", "squeeze"}, !.scale = a, !.squeeze = b] :
             a \in RemoteShapes, b \in RemoteShapes}
    \cup {[NoFields EXCEPT !.has = {"scale", "shear"}, !.scale = a, !.shear = c] :
             a \in RemoteShapes, c \in RemoteShapes}
    \cup {[NoFields EXCEPT !.has = {"scale", "squeeze", "shear"},
                           !.scale = a, !.squeeze = b, !.shear = c] :
             a \in RemoteShapes, b \in RemoteShapes, c \in RemoteShapes}
    \cup {[NoFields EXCEPT !.has = {f}, ![f] = c] :
             f \in ColourFields, c \in RemoteColoursOutside}
    \cup ShapeRecords({"squeeze"}, RemoteShapes)
    \cup ShapeRecords({"shear"}, RemoteShapes)
    \cup ShapeRecords({"squeeze", "shear"}, RemoteShapes)
    \cup {WithPlace(p) : p \in ShapeRecords({"scale", "squeeze", "shear"}, {Whole(1)})}

\* The records of the canvas given to the converter: whole colour channels as
\* the sliders of the property editor make them, a rotation in degrees, or any
\* of scale, squeeze and shear.
LocalChannels == {Whole(k) : k \in 0..MaxChannel}
LocalRotations == {Whole(0), Whole(90), Frac(719, 2)}
LocalShapes == {Frac(j, 2) : j \in (0 - 1)..MaxShape}
LocalInputs ==
    {[NoFields EXCEPT !.has = {"red", "green", "blue"},
                      !.red = Whole(k), !.green = Whole(MaxChannel - k),
                      !.blue = Whole(k)] : k \in 0..MaxChannel}
    \cup {[NoFields EXCEPT !.has = {"rotation"}, !.rotation = r] : r \in LocalRotations}
    \cup UNION {ShapeRecords(h, LocalShapes) :
                   h \in (SUBSET {"scale", "squeeze", "shear"}) \ {{}}}
    \cup {WithPlace(p) : p \in ShapeRecords({"scale", "squeeze", "shear"}, {Whole(1)})}

ConvInit ==
    /\ FormInit
    /\ onPatchesVisualize = FALSE
    /\ CanvasEmpty
    /\ \/ /\ convPc = "input"
          /\ remote \in RemoteInputs
          /\ local = NoFields
       \/ /\ convPc = "localInput"
          /\ local \in LocalInputs
          /\ remote = NoFields
    /\ back = NoFields

ToLocal ==
    /\ convPc = "input"
    /\ local' = convertPatchFromPythonToJs(remote)
    /\ convPc' = "local"
    /\ UNCHANGED <<remote, back, formVars, canvasVars>>

ToRemote ==
    /\ convPc = "local"
    /\ back' = convertPatchFromJsToPython(local)
    /\ convPc' = "back"
    /\ UNCHANGED <<remote, local, formVars, canvasVars>>

\* The other way round: a record of the canvas is converted to a remote one
\* (remote), and that one to a local one again (back).
ToRemoteFirst ==
    /\ convPc = "localInput"
    /\ remote' = convertPatchFromJsToPython(local)
    /\ convPc' = "remote"
    /\ UNCHANGED <<local, back, formVars, canvasVars>>

ToLocalAgain ==
    /\ convPc = "remote"
    /\ back' = convertPatchFromPythonToJs(remote)
    /\ convPc' = "localAgain"
    /\ UNCHANGED <<remote, local, formVars, canvasVars>>

ConvNext == ToLocal \/ ToRemote \/ ToRemoteFirst \/ ToLocalAgain

ConvSpec == ConvInit /\ [][ConvNext]_vars

\* ------------------------------------------------------------------ canvas
\* InteractiveCanvas with the CanvasEditor and the PropertyEditor around it.
\* The two components keep their copies of the placed patches in step (each
\* hands every change to the other), so there is one list here.  A placed
\* patch is known by its place in the list.
Libraries == {"animals", "fruit"}
PlacedFields == PatchFields \cup {"alpha", "order"}

\* canvasToCoord: -1 * ((pos / size) * 2 - 1)
canvasToCoord(pos, size) ==
    NumMul(Whole(0 - 1), NumSub(NumMul(NumDiv(pos, size), Whole(2)), Whole(1)))

\* Math.max(-1, Math.min(1, coord))
Clamp(coord) ==
    LET capped == NumMin(Whole(1), coord) IN
    IF NumLess(capped, Whole(0 - 1)) THEN Whole(0 - 1) ELSE capped

\* The patch made by a click in the library or by a drop: no transform, no
\* colour, transparency 0.2.
NewPatch(library, x, y) ==
    [NoFields EXCEPT !.has = {"alpha"}]
        @@ [origin |-> "placed", library |-> library, x |-> x, y |-> y,
            isDragging |-> FALSE, alpha |-> Dec(2, 1), order |-> 0]

\* The records of a parsed result artifact.  Every record has all its fields;
\* its colour channels are in [0,1]; alpha 0 stands for a record without alpha,
\* which `patch.alpha || .3` does not tell apart.
RemoteResult(library, x, y, rotation, scale, squeeze, shear, red, green, blue, alpha, order) ==
    [has |-> PatchFields \cup {"order"}, library |-> library, x |-> x, y |-> y,
     rotation |-> rotation, scale |-> scale, squeeze |-> squeeze, shear |-> shear,
     red |-> red, green |-> green, blue |-> blue, alpha |-> alpha, order |-> order]
FirstResult ==
    RemoteResult("animals", Frac(1, 2), Frac(0 - 1, 2), Whole(1), Whole(1), Frac(1, 2),
                 Frac(1, 2), Frac(1, 2), Frac(1, 4), Zero, Zero, 1)
SecondResult ==
    RemoteResult("animals", Frac(3, 2), Zero, Whole(0 - 1), Whole(2), Zero,
                 Zero, Whole(1), Frac(1, 512), Whole(1), Frac(1, 2), 0)
\* The parsed lists handed to the canvas: the first record alone, or both, the
\* record of the later order first.
ParsedLists == {<<FirstResult>>, <<FirstResult, SecondResult>>}

\* The placed patch the parsedPatches effect makes of a parsed record.
PlacedFromParsed(patch) ==
    [origin |-> "api-placed", library |-> patch.library, x |-> patch.x, y |-> patch.y,
     isDragging |-> FALSE,
     has |-> PlacedFields,
     rotation |-> JsMod(NumMul(patch.rotation, Dec(556635311, 7)), Whole(360)),
     scale |-> patch.scale,
     squeeze |-> NumMul(patch.squeeze, Dec(64294401, 9)),
     shear |-> NumMul(patch.shear, Dec(939783266, 9)),
     red |-> NumMul(patch.red, Whole(256)),
     green |-> NumMul(patch.green, Whole(256)),
     blue |-> NumMul(patch.blue, Whole(256)),
     alpha |-> IF IsZero(patch.alpha) THEN Dec(3, 1) ELSE patch.alpha,
     order |-> patch.order]

\* [...patches].sort((a, b) => a.order - b.order): stable, ascending.
RECURSIVE InsertByOrder(_, _)
InsertByOrder(sorted, p) ==
    IF sorted = <<>> THEN <<p>>
    ELSE IF sorted[Len(sorted)].order <= p.order THEN Append(sorted, p)
    ELSE Append(InsertByOrder(SubSeq(sorted, 1, Len(sorted) - 1), p), sorted[Len(sorted)])
RECURSIVE SortByOrder(_)
SortByOrder(patches) ==
    IF patches = <<>> THEN <<>>
    ELSE InsertByOrder(SortByOrder(SubSeq(patches, 1, Len(patches) - 1)),
                       patches[Len(patches)])

\* Where the pointer lets go of a library patch, measured from the corner of
\* the stage: -1 is on the one-pixel border of the drop target, which lies
\* outside the stage.  Where a dragged patch is let go: anywhere, also off the
\* stage.
DropPositions == {Whole(0 - 1), Whole(125)}
DragPositions == {Whole(0 - 100), Whole(StageSize + 100)}

\* The two ends of each slider of the property editor.
SliderEnds(property) ==
    CASE property \in {"x", "y", "alpha"} -> {Whole(0 - 1), Whole(1)}
      [] property = "rotation" -> {Whole(0), Whole(360)}
      [] property = "scale" -> {Dec(1, 1), Whole(3)}
      [] property \in {"squeeze", "shear"} -> {Dec(0 - 5, 1), Dec(5, 1)}
      [] property \in ColourFields -> {Whole(0), Whole(256)}
EditableProperties == {"x", "y", "alpha"} \cup PatchFields

CanvasInit ==
    /\ FormInit
    /\ onPatchesVisualize = TRUE
    /\ ConverterOff
    /\ CanvasEmpty

CanvasFrame == UNCHANGED <<formVars, convVars>>

\* A click on a patch of the library: placed at the centre; patches of another
\* library are cleared first.
handleLibraryPatchSelect(library) ==
    /\ LET shouldClearCanvas ==
               \E i \in 1..Len(placedPatches) : placedPatches[i].library # library
           newPatch == NewPatch(library, Zero, Zero)
       IN  placedPatches' = IF shouldClearCanvas THEN <<newPatch>>
                            ELSE Append(placedPatches, newPatch)
    /\ Len(placedPatches') <= MaxPatches
    /\ canvasOp' = "handleLibraryPatchSelect"
    /\ UNCHANGED <<canvasParsed, selectedPatchId, edits>>
    /\ CanvasFrame

\* A library patch is dropped on the canvas: addPatch.
handleDrop(library, x, y) ==
    /\ Len(placedPatches) < MaxPatches
    /\ placedPatches' = Append(placedPatches,
           NewPatch(library, canvasToCoord(x, Whole(StageSize)),
                    canvasToCoord(y, Whole(StageSize))))
    /\ canvasOp' = "handleDrop"
    /\ UNCHANGED <<canvasParsed, selectedPatchId, edits>>
    /\ CanvasFrame

handleDragStart(id) ==
    /\ id \in 1..Len(placedPatches)
    /\ \A i \in 1..Len(placedPatches) : ~placedPatches[i].isDragging
    /\ placedPatches' = [i \in 1..Len(placedPatches) |->
                            [placedPatches[i] EXCEPT !.isDragging = (i = id)]]
    /\ canvasOp' = "handleDragStart"
    /\ UNCHANGED <<canvasParsed, selectedPatchId, edits>>
    /\ CanvasFrame

handleDragEnd(id, x, y) ==
    /\ id \in 1..Len(placedPatches)
    /\ placedPatches[id].isDragging
    /\ placedPatches' =
           [placedPatches EXCEPT ![id] =
               [@ EXCEPT !.x = Clamp(canvasToCoord(x, Whole(StageSize))),
                         !.y = Clamp(canvasToCoord(y, Whole(StageSize))),
                         !.isDragging = FALSE]]
    /\ canvasOp' = "handleDragEnd"
    /\ UNCHANGED <<canvasParsed, selectedPatchId, edits>>
    /\ CanvasFrame

\* A click on a placed patch selects it, or deselects it when it was selected.
handlePatchSelect(id) ==
    /\ id \in 1..Len(placedPatches)
    /\ selectedPatchId' = IF selectedPatchId = id THEN 0 ELSE id
    /\ canvasOp' = "handlePatchSelect"
    /\ UNCHANGED <<canvasParsed, placedPatches, edits>>
    /\ CanvasFrame

\* Delete or Backspace with a patch selected.
removePatch ==
    /\ selectedPatchId # 0
    /\ placedPatches' = SubSeq(placedPatches, 1, selectedPatchId - 1)
                        \o SubSeq(placedPatches, selectedPatchId + 1, Len(placedPatches))
    /\ selectedPatchId' = 0
    /\ canvasOp' = "removePatch"
    /\ UNCHANGED <<canvasParsed, edits>>
    /\ CanvasFrame

\* A slider of the property editor is moved: the value is written to the
\* selected patch as it is.
handlePropertyChange(property, value) ==
    /\ selectedPatchId # 0
    /\ edits < MaxEdits
    /\ edits' = edits + 1
    /\ placedPatches' =
           [placedPatches EXCEPT ![selectedPatchId] =
               [@ EXCEPT ![property] = value,
                         !.has = IF property \in PlacedFields THEN @ \cup {property} ELSE @]]
    /\ canvasOp' = "handlePropertyChange"
    /\ UNCHANGED <<canvasParsed, selectedPatchId>>
    /\ CanvasFrame

\* The form hands a parsed result to the canvas: the effect replaces the
\* placed patches by the patches made of the records, sorted by order.  The
\* selection names a patch that is gone.
ParsedPatchesEffect(patches) ==
    /\ patches # canvasParsed
    /\ canvasParsed' = patches
    /\ placedPatches' = SortByOrder([i \in 1..Len(patches) |-> PlacedFromParsed(patches[i])])
    /\ selectedPatchId' = 0
    /\ canvasOp' = "parsedPatchesEffect"
    /\ UNCHANGED edits
    /\ CanvasFrame

CanvasNext ==
    \/ \E library \in Libraries : handleLibraryPatchSelect(library)
    \/ \E library \in Libraries, x \in DropPositions, y \in DropPositions :
           handleDrop(library, x, y)
    \/ \E id \in 1..Len(placedPatches) : handleDragStart(id)
    \/ \E id \in 1..Len(placedPatches), x \in DragPositions, y \in DragPositions :
           handleDragEnd(id, x, y)
    \/ \E id \in 1..Len(placedPatches) : handlePatchSelect(id)
    \/ removePatch
    \/ \E property \in EditableProperties :
           \E value \in SliderEnds(property) : handlePropertyChange(property, value)
    \/ \E patches \in ParsedLists : ParsedPatchesEffect(patches)

CanvasSpec == CanvasInit /\ [][CanvasNext]_vars

\* ------------------------------------------------------------------ claims

PollRunning == pollPc \in {"awaitGet", "wait", "errorWait", "awaitJson"}
Waiting == pollPc \in {"wait", "errorWait"}

\* C1: when a status query returns failed or canceled, the promise of the loop
\* is rejected, with the error detail of the job or "Prediction failed".
C1_FailureRejectsWithDetail ==
    (pollPc = "settled" /\ prediction.status \in {"failed", "canceled"})
        => /\ pollOutcome = "rejected"
           /\ pollError = IF prediction.error # "" THEN prediction.error
                          ELSE "Prediction failed"

\* C2: once a status query has returned succeeded with a non-empty output, the
\* loop is past its last query: it issued no query and made no wait after that
\* attempt, it resolves with that very prediction, and when this was the first
\* poll exactly one progress update has fired.
C2_SuccessResolvesAtOnce ==
    (prediction.status = "succeeded" /\ prediction.output > 0)
        => /\ pollPc \in {"awaitJson", "settled"}
           /\ inFlight = 0
           /\ queries = attempts
           /\ waits = attempts - 1
           /\ pollPc = "settled" => (pollOutcome = "resolved" /\ pollValue = prediction)
           /\ attempts = 1 => progressLog = <<prediction.output>>

C2_ResolvedOnFirstPoll ==
    /\ pollPc = "settled"
    /\ pollOutcome = "resolved"
    /\ prediction.status = "succeeded"
    /\ prediction.output > 0
    /\ attempts = 1
    /\ Len(progressLog) = 1

\* C3: a loop that never saw a terminal status ends only after exactly 180
\* status queries, and with the timeout error.
C3_NoTerminalStatusTimesOut ==
    (pollPc = "settled" /\ ~sawTerminal)
        => /\ queries = 180
           /\ pollOutcome = "rejected"
           /\ pollError = TimeoutMessage

C3_TimedOutAfterBudget ==
    /\ pollPc = "settled"
    /\ ~sawTerminal
    /\ queries = 180
    /\ prediction.status = "processing"
    /\ pollError = TimeoutMessage

\* C4: a status query that throws is counted, settles nothing and is followed
\* by a wait of min(delay*2, 10000) ms; while the budget lasts the loop then
\* polls again, and the error of the query is never the loop's own error.  When
\* attempt 1 threw and attempt 2 returns succeeded with output, the loop goes on
\* to resolve with the attempt counter at 2.
C4_QueryErrorIsRetried ==
    [][ /\ (pollPc = "awaitGet" /\ pollPc' = "errorWait" /\ caught' = "query")
            => /\ attempts' = attempts
               /\ queries' = attempts
               /\ delay' = delay
               /\ lastWait' = (IF delay * 2 < 10000 THEN delay * 2 ELSE 10000)
               /\ pollOutcome' = "pending"
        /\ (pollPc = "errorWait" /\ caught = "query" /\ pollPc' # pollPc)
            => IF attempts < 180
               THEN pollPc' = "awaitGet" /\ attempts' = attempts + 1 /\ inFlight' = 1
               ELSE pollOutcome' = "rejected" /\ pollError' = TimeoutMessage
        /\ (/\ pollPc = "awaitGet" /\ attempts = 2 /\ prediction = Undefined
            /\ pollPc' # pollPc
            /\ prediction'.status = "succeeded" /\ prediction'.output > 0)
            => /\ attempts' = 2
               /\ \/ pollPc' = "awaitJson"
                  \/ pollPc' = "settled" /\ pollOutcome' = "resolved"
        /\ (pollPc = "awaitJson" /\ pollPc' # pollPc)
            => pollPc' = "settled" /\ pollOutcome' = "resolved" /\ attempts' = attempts
      ]_vars

\* Attempt 1 threw (the only wait so far was the error wait of 2000 ms, with
\* delay still 1000) and attempt 2 succeeded with output.
C4_ResolvedAfterOneError ==
    /\ pollPc = "settled"
    /\ pollOutcome = "resolved"
    /\ attempts = 2
    /\ waits = 1
    /\ delay = 1000
    /\ lastWait = 2000
    /\ pollValue.status = "succeeded"
    /\ pollValue.output > 0

\* C5: the loop issues as many status queries as its attempt counter says, at
\* most 180, settles its promise at most once, and every started loop settles.
C5_LoopSettlesOnce ==
    /\ [](/\ queries = attempts
          /\ queries <= 180
          /\ settleCount <= 1
          /\ (settleCount = 1) = (pollPc = "settled"))
    /\ (PollRunning ~> (pollPc = "settled" /\ settleCount = 1))

C5_SettledAtBudget ==
    /\ pollPc = "settled"
    /\ settleCount = 1
    /\ queries = 180
    /\ attempts = 180

\* C6: after a status query has returned failed or canceled the loop makes no
\* timed wait before its promise is settled.
C6_NoWaitAfterFailure ==
    prediction.status \in {"failed", "canceled"} => ~Waiting

\* C7: a submission whose job was last seen failed or canceled ends in the
\* error branch of onSubmit, never in its success branch.
C7_FailedJobEndsInError ==
    [][ (/\ submitPc = "polling" /\ submitPc' = "idle"
         /\ prediction.status \in {"failed", "canceled"})
            => (outcome' = "error" /\ outcome' # "success") ]_vars

\* C8: the loop rejects with the timeout error only if none of its attempts saw
\* a terminal status.
C8_TimeoutOnlyWithoutTerminal ==
    (pollOutcome = "rejected" /\ pollError = TimeoutMessage) => ~sawTerminal

C10_OneQueryInFlight ==
    [][ /\ inFlight' \in {0, 1}
        /\ inFlight' = (IF pollPc' = "awaitGet" THEN 1 ELSE 0)
        /\ queries' = queries + 1 => (inFlight = 0 /\ (queries = 0 \/ Waiting))
      ]_vars

C10_SecondQueryInFlight ==
    /\ pollPc = "awaitGet"
    /\ inFlight = 1
    /\ queries = 2

\* C19: when a status query returns a non-terminal response the loop waits,
\* and the wait is exactly 2000 ms if the status is processing, whatever the
\* delay was, and otherwise the previous delay times 1.5, or 5000 ms once that
\* product reaches 5000; the first previous delay is 1000 ms.  A wait of the
\* normal path is never above 5000 ms and a wait of the error path never above
\* 10000 ms.
C19_BackoffSchedule ==
    [][ /\ (/\ pollPc = "awaitGet" /\ pollPc' # pollPc /\ caught' = "none"
            /\ prediction'.status \in {"starting", "processing"})
            => /\ pollPc' = "wait"
               /\ waits' = waits + 1
               /\ delay' = lastWait'
               /\ IF prediction'.status = "processing"
                  THEN lastWait' = 2000
                  ELSE IF 3 * delay >= 2 * 5000
                       THEN lastWait' = 5000
                       ELSE 2 * lastWait' = 3 * delay
        /\ (pollPc = "awaitGet" /\ waits = 0) => delay = 1000
        /\ pollPc' = "wait" => lastWait' <= 5000
        /\ pollPc' = "errorWait" => lastWait' <= 10000
      ]_vars

\* Four responses in a row that were not processing: the waits were 1500,
\* 2250, 3375 and then the ceiling of 5000 ms.
C19_CeilingReached ==
    /\ pollPc = "wait"
    /\ attempts = 4
    /\ waits = 4
    /\ prediction.status = "starting"
    /\ lastWait = 5000

\* The converter has produced the local record / the record converted back.
Converted == convPc \in {"local", "back"}
ConvertedBack == convPc = "back"
Within(a, b, tolerance) == NumLess(NumAbs(NumSub(a, b)), tolerance)
IsWhole(a) == NumEq(a, Whole(Floor(a)))

\* C11: for every remote rotation, positive, zero or negative, the local
\* rotation made by pythonToJsRotation is at least 0 and below 360.
C11_LocalRotationInRange ==
    (Converted /\ Defined(remote, {"rotation"}))
        => /\ NumLeq(Zero, local.rotation)
           /\ NumLess(local.rotation, Whole(360))

\* C12: for every remote colour channel c from 0 to 1 the local channel is a
\* whole number from 0 to 255, and it is round(c * 256) cut to that range: 255
\* when c * 256 is 255.5 or more, and otherwise the whole number v with
\* v - 1/2 <= c * 256 < v + 1/2.
C12_ColourRoundedAndCapped ==
    \A f \in ColourFields :
        (/\ Converted /\ Defined(remote, {f})
         /\ NumLeq(Zero, remote[f]) /\ NumLeq(remote[f], Whole(1)))
            => LET y == NumMul(remote[f], Whole(256))
                   v == local[f]
               IN  /\ NumLeq(Zero, v) /\ NumLeq(v, Whole(255))
                   /\ IsWhole(v)
                   /\ IF NumLeq(Dec(2555, 1), y)
                      THEN NumEq(v, Whole(255))
                      ELSE /\ NumLeq(NumSub(v, Frac(1, 2)), y)
                           /\ NumLess(y, NumAdd(v, Frac(1, 2)))

\* The channel 511/512 times 256 is 255.5, which rounds up to 256 and is cut
\* to 255.
C12_HalfRoundsUpIntoCap ==
    /\ convPc = "local"
    /\ Defined(remote, {"red"})
    /\ NumEq(remote.red, Frac(511, 512))
    /\ NumEq(local.red, Whole(255))

\* C13 as stated: for every remote rotation r that is not near the wrap of the
\* modulo (r * 55.6635311 is a degree or more away from every multiple of
\* 360), converting to local and back returns r within 1e-6.
C13_RotationRoundTrip ==
    LET turned == ModOfPositive(NumAbs(NumMul(remote.rotation, Dec(556635311, 7))),
                                Whole(360))
    IN  (/\ ConvertedBack /\ Defined(remote, {"rotation"})
         /\ NumLeq(Whole(1), turned) /\ NumLeq(turned, Whole(359)))
            => Within(back.rotation, remote.rotation, Dec(1, 6))

\* C13 amended: for every remote rotation r with 0 <= r * 55.6635311 < 360,
\* converting to local and back returns r within 1e-6.
C13_RoundTripInsideFirstTurn ==
    LET degrees == NumMul(remote.rotation, Dec(556635311, 7)) IN
    (/\ ConvertedBack /\ Defined(remote, {"rotation"})
     /\ NumLeq(Zero, degrees) /\ NumLess(degrees, Whole(360)))
        => Within(back.rotation, remote.rotation, Dec(1, 6))

\* The rotation 6.25 (347.9 degrees) has come back as 6.25.
C13_LastQuarterCameBack ==
    /\ ConvertedBack
    /\ Defined(remote, {"rotation"})
    /\ NumEq(remote.rotation, Frac(25, 4))
    /\ NumEq(back.rotation, Frac(25, 4))

\* C14 as stated: for every remote colour channel c from 0 to 1, converting to
\* local and back returns c up to the rounding error of the arithmetic (1e-6,
\* the tolerance the same sentence gives for the rotation).
C14_ColourRoundTrip ==
    \A f \in ColourFields :
        (/\ ConvertedBack /\ Defined(remote, {f})
         /\ NumLeq(Zero, remote[f]) /\ NumLeq(remote[f], Whole(1)))
            => Within(back[f], remote[f], Dec(1, 6))

\* C14 amended: for every remote colour channel c from 0 to 1, converting to
\* local and back returns a multiple of 1/256 that is within 1/256 of c, within
\* 1/512 of it when c < 511/512, and c itself when c is a multiple of 1/256
\* below 1.
C14_ColourRoundTripQuantised ==
    \A f \in ColourFields :
        (/\ ConvertedBack /\ Defined(remote, {f})
         /\ NumLeq(Zero, remote[f]) /\ NumLeq(remote[f], Whole(1)))
            => LET c == remote[f]
                   error == NumAbs(NumSub(back[f], c))
               IN  /\ IsWhole(NumMul(back[f], Whole(256)))
                   /\ NumLeq(error, Frac(1, 256))
                   /\ NumLess(c, Frac(511, 512)) => NumLeq(error, Frac(1, 512))
                   /\ (IsWhole(NumMul(c, Whole(256))) /\ NumLess(c, Whole(1)))
                          => NumEq(back[f], c)

\* The channel 1/512 has come back as 1/256.
C14_HalfStepCameBackDoubled ==
    /\ ConvertedBack
    /\ Defined(remote, {"red"})
    /\ NumEq(remote.red, Frac(1, 512))
    /\ NumEq(back.red, Frac(1, 256))

\* The remote rotation 2 pi / 55.6635311 = 0.112877950482..., between two
\* decimals.
IsTwoPiOverFactor(r) == NumLeq(Dec(112877950, 9), r) /\ NumLeq(r, Dec(112877951, 9))
NearWrap(degrees, tolerance) ==
    NumLess(degrees, tolerance) \/ NumLess(NumSub(Whole(360), tolerance), degrees)

\* C15 as stated: the remote rotation 0 becomes the local rotation 0, and the
\* remote rotation 2 pi / 55.6635311 becomes approximately 0 (360 mod 360).
C15_ZeroAndFullTurn ==
    (Converted /\ Defined(remote, {"rotation"}))
        => /\ IsZero(remote.rotation) => IsZero(local.rotation)
           /\ IsTwoPiOverFactor(remote.rotation) => NearWrap(local.rotation, Dec(1, 3))

\* C15 amended: the remote rotation 0 becomes the local rotation 0; the remote
\* rotation 2 pi / 55.6635311 becomes approximately 2 pi = 6.2831853 degrees,
\* not 0; it is at 360 / 55.6635311 = 6.46743016... that the local rotation
\* wraps, from just under 360 to just over 0.
C15_ZeroAndTwoPi ==
    (Converted /\ Defined(remote, {"rotation"}))
        => /\ IsZero(remote.rotation) => IsZero(local.rotation)
           /\ IsTwoPiOverFactor(remote.rotation)
                 => Within(local.rotation, Dec(62831853, 7), Dec(1, 6))
           /\ NumEq(remote.rotation, Dec(64674301, 7))
                 => /\ NumLess(NumSub(Whole(360), Dec(1, 5)), local.rotation)
                    /\ NumLess(local.rotation, Whole(360))
           /\ NumEq(remote.rotation, Dec(64674302, 7))
                 => NumLess(local.rotation, Dec(1, 5))

\* 2 pi / 55.6635311 has been converted, to more than 6 degrees.
C15_TwoPiConverted ==
    /\ convPc = "local"
    /\ Defined(remote, {"rotation"})
    /\ IsTwoPiOverFactor(remote.rotation)
    /\ NumLess(Whole(6), local.rotation)

\* C20: for a remote record that has scale and squeeze, with or without shear,
\* the local squeeze is remote scale * 0.064294401 + remote squeeze *
\* 0.00870305, computed from the remote scale of the record.
C20_SqueezeFromRemoteScale ==
    (Converted /\ Defined(remote, {"scale", "squeeze"}))
        => NumEq(local.squeeze,
                 NumAdd(NumMul(remote.scale, Dec(64294401, 9)),
                        NumMul(remote.squeeze, Dec(870305, 8))))

\* C16: every record of a parsed result artifact is converted by the converter
\* before it enters the canvas: the placed patch the canvas makes of a remote
\* record has the rotation, scale, squeeze, shear, red, green and blue of
\* convertPatchFromPythonToJs of that record.
C16_CanvasUsesConverter ==
    canvasOp = "parsedPatchesEffect"
        => LET records == SortByOrder(canvasParsed) IN
           /\ Len(placedPatches) = Len(records)
           /\ \A i \in 1..Len(records) :
                  \A f \in PatchFields :
                      NumEq(placedPatches[i][f], convertPatchFromPythonToJs(records[i])[f])

\* C17: after any sequence of canvas operations (placing a patch, applying a
\* remote result whose channels are in [0,1], editing a property), every placed
\* patch that has red, green or blue has each of them from 0 to 255.
C17_ChannelsInRange ==
    \A i \in 1..Len(placedPatches) :
        \A f \in ColourFields \cap placedPatches[i].has :
            /\ NumLeq(Zero, placedPatches[i][f])
            /\ NumLeq(placedPatches[i][f], Whole(255))

\* C18: after any sequence of canvas operations (library click, drop, drag,
\* property edit, applying a remote result), every placed patch has x and y
\* from -1 to 1.
C18_PositionsInRange ==
    \A i \in 1..Len(placedPatches) :
        /\ NumLeq(Whole(0 - 1), placedPatches[i].x) /\ NumLeq(placedPatches[i].x, Whole(1))
        /\ NumLeq(Whole(0 - 1), placedPatches[i].y) /\ NumLeq(placedPatches[i].y, Whole(1))

\* The converter has made a remote record of a record of the canvas / a local
\* record of that remote one again.
ConvertedToRemote == convPc \in {"remote", "localAgain"}
ConvertedToLocalAgain == convPc = "localAgain"

\* C21: for a remote record that has scale, squeeze and shear, the local shear
\* is remote squeeze * 0.013955148 + remote shear * 0.939783266: its first
\* term is taken from the remote squeeze of the record.
C21_ShearFromRemoteSqueeze ==
    (Converted /\ Defined(remote, {"scale", "squeeze", "shear"}))
        => NumEq(local.shear,
                 NumAdd(NumMul(remote.squeeze, Dec(13955148, 9)),
                        NumMul(remote.shear, Dec(939783266, 9))))

C23_ColourClampedBothEnds ==
    \A f \in ColourFields :
        (Converted /\ Defined(remote, {f}))
            => LET rounded == MathRound(NumMul(remote[f], Whole(256))) IN
               /\ NumLeq(Zero, local[f])
               /\ NumLeq(local[f], Whole(255))
               /\ NumEq(local[f], IF NumLess(rounded, Zero) THEN Zero
                                  ELSE NumMin(rounded, Whole(255)))

\* The fields a field's conversion reads, in either direction.
ToLocalNeeds(f) ==
    CASE f = "scale" -> {"scale", "squeeze", "shear"}
      [] f = "squeeze" -> {"scale", "squeeze"}
      [] f = "shear" -> {"scale", "shear"}
      [] OTHER -> {f}
ToRemoteNeeds(f) ==
    CASE f = "scale" -> {"scale", "squeeze"}
      [] f = "shear" -> {"scale", "shear"}
      [] OTHER -> {f}

\* The converted record has the keys of the record given, the same optional
\* fields, the same value in every field the converter does not know, and the
\* same value in every field whose conversion lacks one of its inputs; toLocal
\* tells the direction of the conversion.
KeepsKeysAndRest(given, made, toLocal) ==
    /\ DOMAIN made = DOMAIN given
    /\ made.has = given.has
    /\ \A f \in DOMAIN given \ (PatchFields \cup {"has"}) : made[f] = given[f]
    /\ \A f \in given.has \cap PatchFields :
           ~Defined(given, IF toLocal THEN ToLocalNeeds(f) ELSE ToRemoteNeeds(f))
               => made[f] = given[f]

\* C24: both converters return a record with exactly the keys of the record
\* given.  A field is converted only when all the fields its conversion reads
\* are present, and keeps its value otherwise; no absent field is added, and
\* a field the converter does not know is copied.
C24_KeysAndUnconvertedFieldsKept ==
    /\ Converted => KeepsKeysAndRest(remote, local, TRUE)
    /\ ConvertedBack => KeepsKeysAndRest(local, back, FALSE)
    /\ ConvertedToRemote => KeepsKeysAndRest(local, remote, FALSE)
    /\ ConvertedToLocalAgain => KeepsKeysAndRest(remote, back, TRUE)

\* A remote record with squeeze and shear and no scale has been converted,
\* and both have kept their values.
C24_ShearWithoutScaleKept ==
    /\ convPc = "local"
    /\ remote.has = {"squeeze", "shear"}
    /\ NumEq(remote.squeeze, Whole(1))
    /\ NumEq(remote.shear, Frac(1, 2))
    /\ local.has = {"squeeze", "shear"}
    /\ NumEq(local.squeeze, Whole(1))
    /\ NumEq(local.shear, Frac(1, 2))

\* C30: for every whole colour channel k from 0 to 255 of a record of the
\* canvas, converting to remote and back to local returns k itself, for red,
\* green and blue alike.
C30_WholeChannelRoundTrip ==
    \A f \in ColourFields :
        (/\ ConvertedToLocalAgain /\ Defined(local, {f})
         /\ IsWhole(local[f])
         /\ NumLeq(Zero, local[f]) /\ NumLeq(local[f], Whole(255)))
            => /\ NumEq(remote[f], NumDiv(local[f], Whole(256)))
               /\ NumEq(back[f], local[f])

\* The channel 255 has been converted to 255/256 and has come back.
C30_TopChannelCameBack ==
    /\ convPc = "localAgain"
    /\ Defined(local, {"red", "green", "blue"})
    /\ NumEq(local.red, Whole(255))
    /\ NumEq(remote.red, Frac(255, 256))
    /\ NumEq(back.red, Whole(255))

\* C25: once a status query has answered succeeded with an empty or absent
\* output list, the poll loop issues no further status query, and the
\* submission ends in a failure shown to the user, "No output generated" or
\* the timeout error, never in the success outcome.
C25_SucceededWithoutOutputFails ==
    [][(prediction.status = "succeeded" /\ ~HasOutput(prediction))
          => /\ queries' <= queries
             /\ outcome' # "success"
             /\ (submitPc = "polling" /\ submitPc' = "idle")
                    => /\ outcome' = "error"
                       /\ outcomeMessage' \in {NoOutputMessage, TimeoutMessage}]_vars

\* The loop has returned a succeeded prediction without output after its
\* second query.
C25_ReturnedWithoutOutput ==
    /\ submitPc = "polling"
    /\ pollPc = "settled"
    /\ pollOutcome = "resolved"
    /\ pollValue.status = "succeeded"
    /\ ~HasOutput(pollValue)
    /\ queries = 2

\* The wait before the query in flight was the wait of a catch block: a
\* normal wait is the delay itself, the wait of a catch block never is.
AfterErrorWait == pollPc = "awaitGet" /\ waits > 0 /\ lastWait # delay

\* C29: the catch block of the poll loop leaves the delay as it is: it waits
\* min(delay * 2, 10000) of the delay the last normal wait has left, the delay
\* is the same when the wait is over, and a query that fails after a wait of
\* the catch block waits the same amount again.
C29_ErrorWaitLeavesDelay ==
    [][/\ (pollPc = "awaitGet" /\ pollPc' = "errorWait")
            => /\ delay' = delay
               /\ lastWait' = Min(delay * 2, 10000)
       /\ (pollPc = "errorWait" /\ pollPc' \in {"errorWait", "awaitGet"})
            => delay' = delay
       /\ (AfterErrorWait /\ pollPc' = "errorWait")
            => lastWait' = lastWait]_vars

\* Two queries have failed one after the other, the second waits 2000 ms as
\* the first did, and the delay is still 1000.
C29_SecondFailureWaitsTheSame ==
    /\ pollPc = "errorWait"
    /\ caught = "query"
    /\ attempts = 2
    /\ waits = 2
    /\ prediction = Undefined
    /\ delay = 1000
    /\ lastWait = 2000

C26_LoadingToastDismissed ==
    (loadingToast = "open") ~> (loadingToast = "dismissed")

\* C27: checkStatus never has a status query in flight while the poll loop
\* has one: in the whole form at most one status query is in flight at any
\* time.
C27_OneStatusQueryInTheForm == inFlight + checkInFlight <= 1

====
